---- MODULE Spec2Model ----
(***************************************************************************)
(* Seller / artisan onboarding pipeline of zaymazone.                      *)
(*                                                                         *)
(*   server/src/routes/verify.js : POST /bank-account (validate + upsert)  *)
(*   src/services/api.ts         : sellerApi.registerSeller (upload join)  *)
(*                                                                         *)
(* JavaScript values are modelled as records tagged with their type        *)
(* ("kind"): a string is the sequence of its characters, so that the       *)
(* schema's length and pattern checks are computed on the characters.      *)
(***************************************************************************)
EXTENDS Integers, Sequences, FiniteSets, TLC

\* ------------------------------------------------------------------ bounds

\* Number of POST /bank-account requests in flight in ServerSpec.
NumRequests == 2
\* Longest accountNumber submitted in ValidateSpec.
MaxAcctLen == 20
\* Longest productPhotos list submitted to registerSeller.
MaxPhotos == 2

\* ------------------------------------------------- constants of the schema

AcctMinDigits == 9
AcctMaxDigits == 18
IfscLetters == 4
IfscTail == 6
BankNameMax == 100
NameMax == 200
BioMax == 1000
CityStateMax == 100

\* ------------------------------------------------------------ JS values

Undefined == [kind |-> "undefined"]
Null == [kind |-> "null"]
Str(cs) == [kind |-> "string", chars |-> cs]
Num(n) == [kind |-> "number", val |-> n]
Arr(xs) == [kind |-> "array", items |-> xs]

IsStr(v) == v.kind = "string"
StrLen(v) == Len(v.chars)

\* A string of n characters, all c.
Rep(c, n) == [i \in 1..n |-> c]

DigitChars == <<"0", "1", "2", "3", "4", "5", "6", "7", "8", "9">>
Digits == {DigitChars[i] : i \in 1..Len(DigitChars)}
Upper ==
  {"A", "B", "C", "D", "E", "F", "G", "H", "I", "J", "K", "L", "M",
   "N", "O", "P", "Q", "R", "S", "T", "U", "V", "W", "X", "Y", "Z"}

\* The n-digit string 1234567890123...
DigitsOfLen(n) == [i \in 1..n |-> DigitChars[(i % 10) + 1]]
\* s with its k-th character replaced by c.
WithCharAt(s, k, c) == [i \in 1..Len(s) |-> IF i = k THEN c ELSE s[i]]

\* ------------------------------------------------- bankVerificationSchema

\* Variant of the pattern with the upper bound dropped, /^\d{9,}$/.
MatchesAccountNumber_NoUpperBound(cs) ==
  /\ Len(cs) >= AcctMinDigits
  /\ \A i \in 1..Len(cs) : cs[i] \in Digits

\* /^\d{9,18}$/
MatchesAccountNumber(cs) ==
  /\ Len(cs) >= AcctMinDigits
  /\ Len(cs) <= AcctMaxDigits
  /\ \A i \in 1..Len(cs) : cs[i] \in Digits

\* /^[A-Z]{4}0[A-Z0-9]{6}$/
MatchesIfsc(cs) ==
  /\ Len(cs) = IfscLetters + 1 + IfscTail
  /\ \A i \in 1..IfscLetters : cs[i] \in Upper
  /\ cs[IfscLetters + 1] = "0"
  /\ \A i \in (IfscLetters + 2)..Len(cs) : cs[i] \in Upper \cup Digits

\* z.string().min(lo).max(hi)
StringBetween(v, lo, hi) == IsStr(v) /\ StrLen(v) >= lo /\ StrLen(v) <= hi

\* z.string().url(): an absolute URL, "<scheme>:<rest>".
IsUrl(cs) ==
  \E i \in 2..Len(cs) :
    /\ cs[i] = ":"
    /\ i < Len(cs)
    /\ \A j \in 1..(i - 1) : cs[j] \notin {":", "/", " "}

DocumentTypes ==
  {<<"a", "a", "d", "h", "a", "r">>, <<"p", "a", "n">>,
   <<"l", "i", "c", "e", "n", "s", "e">>}

India == Str(<<"I", "n", "d", "i", "a">>)

Optional(v, ok) == v.kind = "undefined" \/ ok

LocationIssues(v) ==
  IF v.kind # "object" THEN {"location"}
  ELSE (IF StringBetween(v.city, 1, CityStateMax) THEN {} ELSE {"location.city"})
       \cup (IF StringBetween(v.state, 1, CityStateMax) THEN {} ELSE {"location.state"})
       \cup (IF Optional(v.country, IsStr(v.country)) THEN {} ELSE {"location.country"})

SocialsIssues(v) ==
  IF v.kind = "undefined" THEN {}
  ELSE IF v.kind # "object" THEN {"socials"}
  ELSE (IF Optional(v.instagram, IsStr(v.instagram)) THEN {} ELSE {"socials.instagram"})
       \cup (IF Optional(v.facebook, IsStr(v.facebook)) THEN {} ELSE {"socials.facebook"})
       \cup (IF Optional(v.website, IsStr(v.website) /\ IsUrl(v.website.chars))
             THEN {} ELSE {"socials.website"})

AccountNumberOk(v) == IsStr(v) /\ MatchesAccountNumber(v.chars)

\* The paths of validationResult.error.errors: one entry per failing field.
Issues(b) ==
  (IF AccountNumberOk(b.accountNumber) THEN {} ELSE {"accountNumber"})
  \cup (IF IsStr(b.ifscCode) /\ MatchesIfsc(b.ifscCode.chars) THEN {} ELSE {"ifscCode"})
  \cup (IF StringBetween(b.bankName, 1, BankNameMax) THEN {} ELSE {"bankName"})
  \cup (IF StringBetween(b.name, 1, NameMax) THEN {} ELSE {"name"})
  \cup (IF Optional(b.bio, StringBetween(b.bio, 0, BioMax)) THEN {} ELSE {"bio"})
  \cup LocationIssues(b.location)
  \cup (IF Optional(b.specialties,
                    b.specialties.kind = "array"
                    /\ \A i \in 1..Len(b.specialties.items) : IsStr(b.specialties.items[i]))
        THEN {} ELSE {"specialties"})
  \cup (IF Optional(b.experience, b.experience.kind = "number" /\ b.experience.val >= 0)
        THEN {} ELSE {"experience"})
  \cup SocialsIssues(b.socials)
  \cup (IF IsStr(b.documentType) /\ b.documentType.chars \in DocumentTypes
        THEN {} ELSE {"documentType"})
  \cup (IF IsStr(b.documentNumber) /\ StrLen(b.documentNumber) >= 1
        THEN {} ELSE {"documentNumber"})

\* validationResult.data: the body with country defaulted.
ParsedData(b) ==
  [b EXCEPT !.location =
     [@ EXCEPT !.country = IF @.kind = "undefined" THEN India ELSE @]]

\* bankVerificationSchema.safeParse(req.body)
SafeParse(b) ==
  IF Issues(b) = {}
  THEN [success |-> TRUE, data |-> ParsedData(b), issues |-> {}]
  ELSE [success |-> FALSE, data |-> b, issues |-> Issues(b)]

\* ------------------------------------------------------ inputs (bodies)

Chars(n) == Rep("x", n)
Obj(city, state, country) ==
  [kind |-> "object", city |-> city, state |-> state, country |-> country]
Socials(instagram, facebook, website) ==
  [kind |-> "object", instagram |-> instagram, facebook |-> facebook,
   website |-> website]

\* The spec's example request: only the required fields.
BaseBody ==
  [accountNumber |-> Str(DigitsOfLen(AcctMinDigits)),
   ifscCode |-> Str(<<"A", "B", "C", "D", "0", "1", "2", "3", "4", "5", "6">>),
   bankName |-> Str(<<"T", "B">>),
   name |-> Str(<<"J", "a", "n", "e">>),
   bio |-> Undefined,
   location |-> Obj(Str(<<"P", "u", "n", "e">>), Str(<<"M", "H">>), Undefined),
   specialties |-> Undefined,
   experience |-> Undefined,
   socials |-> Undefined,
   documentType |-> Str(<<"a", "a", "d", "h", "a", "r">>),
   documentNumber |-> Str(<<"X", "1">>)]

\* Every optional field present, every value different from BaseBody's.
FullBody ==
  [BaseBody EXCEPT
     !.accountNumber = Str(DigitsOfLen(AcctMaxDigits)),
     !.ifscCode = Str(<<"H", "D", "F", "C", "0", "A", "B", "C", "1", "2", "3">>),
     !.bankName = Str(<<"H">>),
     !.name = Str(<<"R", "a", "j">>),
     !.bio = Str(<<"w", "e", "a", "v", "e", "r">>),
     !.location = Obj(Str(<<"G", "o", "a">>), Str(<<"G", "A">>), Str(<<"I", "N">>)),
     !.specialties = Arr(<<Str(<<"s", "i", "l", "k">>)>>),
     !.experience = Num(3),
     !.socials = Socials(Str(<<"@", "r">>), Undefined, Str(<<"h", ":", "/", "/", "r">>)),
     !.documentType = Str(<<"p", "a", "n">>),
     !.documentNumber = Str(<<"P", "9">>)]

\* Optional fields present with falsy values.
FalsyBody ==
  [BaseBody EXCEPT !.bio = Str(<<>>), !.experience = Num(0),
                   !.specialties = Arr(<<>>)]

\* Bodies submitted in ServerSpec: three that pass the schema, two that fail.
ServerBodies ==
  {BaseBody, FullBody, FalsyBody,
   [BaseBody EXCEPT !.accountNumber = Str(DigitsOfLen(5))],
   [FullBody EXCEPT !.ifscCode = Str(<<"a", "b", "c", "d", "0", "1", "2", "3", "4", "5", "6">>),
                    !.name = Undefined, !.experience = Num(-1)]}

\* The strings tried as accountNumber in ValidateSpec: every all-digit string
\* of 0..MaxAcctLen characters, and each of them with one character replaced
\* by a letter, a space, a sign or a point.
NonDigits == {"a", " ", "-", "+", "."}
AccountStrings ==
  {DigitsOfLen(n) : n \in 0..MaxAcctLen}
  \cup {WithCharAt(DigitsOfLen(n), k, c) :
          n \in 1..MaxAcctLen, k \in 1..MaxAcctLen, c \in NonDigits}

\* Bodies submitted in ValidateSpec.
ValidateBodies ==
  {[BaseBody EXCEPT !.accountNumber = Str(cs)] : cs \in AccountStrings}
  \cup {[FullBody EXCEPT !.accountNumber = Str(cs)] :
          cs \in {DigitsOfLen(n) : n \in 0..MaxAcctLen}}
  \cup {[BaseBody EXCEPT !.accountNumber = v] : v \in {Undefined, Num(123456789)}}
  \cup {[BaseBody EXCEPT !.accountNumber = Str(DigitsOfLen(n)),
                         !.ifscCode = Str(<<"A", "B", "C", "D", "1", "1", "2", "3", "4", "5", "6">>)] :
          n \in {AcctMinDigits - 1, AcctMinDigits, AcctMaxDigits, AcctMaxDigits + 1}}
  \cup {[BaseBody EXCEPT !.bankName = Str(Chars(n))] : n \in {0, BankNameMax, BankNameMax + 1}}
  \cup {[BaseBody EXCEPT !.name = Str(Chars(n))] : n \in {0, NameMax, NameMax + 1}}
  \cup {[BaseBody EXCEPT !.bio = Str(Chars(n))] : n \in {BioMax, BioMax + 1}}
  \cup {[BaseBody EXCEPT !.location = Obj(Str(Chars(n)), Str(Chars(m)), Undefined)] :
          n \in {0, CityStateMax + 1}, m \in {1, CityStateMax + 1}}
  \cup {[BaseBody EXCEPT !.location = Undefined]}
  \cup {[BaseBody EXCEPT !.socials = Socials(Undefined, Undefined, Str(<<"n", "o">>))]}
  \cup {[BaseBody EXCEPT !.documentNumber = Str(<<>>)]}

\* ------------------------------------------------------------ state

VARIABLES
  store,      \* the Artisan collection: _id -> document
  nextId,     \* the next _id `new Artisan` generates
  now,        \* the server's clock: what the next new Date() returns
  req,        \* the POST /bank-account requests, by request number
  sub,        \* registerSeller: the submission (data)
  uploads,    \* registerSeller: the uploadFile calls, by slot
  outcome,    \* registerSeller: where the call is, and how it ended
  posted      \* registerSeller: the bodies POSTed to /sellers/register

serverVars == <<store, nextId, now, req>>
clientVars == <<sub, uploads, outcome, posted>>
vars == <<store, nextId, now, req, sub, uploads, outcome, posted>>

Users == {"u1", "u2"}
Requests == 1..NumRequests

\* ------------------------------------------------- the Artisan documents

Doc(id, userId, name, bio, location, specialties, experience, socials, verification) ==
  [kind |-> "doc", id |-> id, userId |-> userId, name |-> name, bio |-> bio,
   location |-> location, specialties |-> specialties,
   experience |-> experience, socials |-> socials,
   verification |-> verification]

EmptyObject == Socials(Undefined, Undefined, Undefined)

\* JavaScript truthiness of the values the handler tests.
Falsy(v) ==
  \/ v.kind \in {"undefined", "null"}
  \/ v.kind = "string" /\ Len(v.chars) = 0
  \/ v.kind = "number" /\ v.val = 0
\* a || b
OrElse(a, b) == IF Falsy(a) THEN b ELSE a

\* { ...a, ...b }
Spread(a, b) ==
  [k \in DOMAIN a \cup DOMAIN b |-> IF k \in DOMAIN b THEN b[k] ELSE a[k]]

\* The fields both branches write into the verification block.
VerificationFields(data, t) ==
  [isVerified |-> TRUE,
   documentType |-> data.documentType,
   documentNumber |-> data.documentNumber,
   bankDetails |-> [accountNumber |-> data.accountNumber,
                    ifscCode |-> data.ifscCode,
                    bankName |-> data.bankName],
   verifiedAt |-> t]

\* Variant of the create branch without the `|| default` fallbacks.
NewArtisan_NoDefaults(id, userId, data, t) ==
  Doc(id, userId, data.name, data.bio, data.location, data.specialties,
      data.experience, data.socials, VerificationFields(data, t))

\* new Artisan({...}) at time t, with the generated _id.
NewArtisan(id, userId, data, t) ==
  Doc(id, userId, data.name,
      OrElse(data.bio, Str(<<>>)),
      data.location,
      OrElse(data.specialties, Arr(<<>>)),
      OrElse(data.experience, Num(0)),
      OrElse(data.socials, EmptyObject),
      VerificationFields(data, t))

\* Variant of the update branch without the spread of the previous block.
UpdatedVerification_Replace(old, data, t) == VerificationFields(data, t)

\* artisan.verification = { ...artisan.verification, isVerified: true, ... }
UpdatedVerification(old, data, t) == Spread(old, VerificationFields(data, t))

\* The update branch applied to the document findOne returned.
UpdateArtisan(artisan, data, t) ==
  [artisan EXCEPT
     !.name = data.name,
     !.bio = IF data.bio.kind # "undefined" THEN data.bio ELSE @,
     !.location = IF ~Falsy(data.location) THEN data.location ELSE @,
     !.specialties = IF ~Falsy(data.specialties) THEN data.specialties ELSE @,
     !.experience = IF data.experience.kind # "undefined" THEN data.experience ELSE @,
     !.socials = IF ~Falsy(data.socials) THEN data.socials ELSE @,
     !.verification = UpdatedVerification(@, data, t)]

\* ------------------------------------------------------- the RecordStore

\* Artisan.findOne({ userId }): the documents the query matches.
FindMatches(s, userId) == {i \in DOMAIN s : s[i].userId = userId}

\* artisan.save(): one atomic write of one document, by _id; a document the
\* collection does not hold yet is inserted.
SaveDoc(s, d) ==
  [i \in DOMAIN s \cup {d.id} |-> IF i = d.id THEN d ELSE s[i]]

\* Documents persisted before the server started. The second carries a field
\* of the verification block that the handler does not assign.
SeedVerification ==
  [isVerified |-> FALSE,
   documentType |-> Str(<<"l", "i", "c", "e", "n", "s", "e">>),
   documentNumber |-> Str(<<"L", "0">>),
   bankDetails |-> [accountNumber |-> Str(DigitsOfLen(10)),
                    ifscCode |-> Str(<<"S", "B", "I", "N", "0", "0", "0", "0", "0", "0", "1">>),
                    bankName |-> Str(<<"S", "B", "I">>)],
   verifiedAt |-> 0]
SeedDoc(v) ==
  Doc(1, "u1", Str(<<"O", "l", "d">>), Str(<<"o", "l", "d", "b", "i", "o">>),
      Obj(Str(<<"A", "g", "r", "a">>), Str(<<"U", "P">>), India),
      Arr(<<Str(<<"c", "l", "a", "y">>)>>), Num(7),
      Socials(Undefined, Str(<<"f", "b">>), Undefined), v)
SeedStores ==
  {<<>>,
   <<SeedDoc(SeedVerification)>>,
   <<SeedDoc(Spread(SeedVerification, [reviewNote |-> Str(<<"o", "k">>)]))>>}

\* ----------------------------------------------------------- responses

ValidationFailed(issues) ==
  [status |-> 400, error |-> "Validation failed", details |-> issues]
StorageFailed ==
  [status |-> 500, error |-> "Failed to validate and store form"]
Success(artisan) ==
  [status |-> 200, success |-> TRUE,
   message |-> "Form validated and stored successfully",
   artisan |-> [id |-> artisan.id, name |-> artisan.name,
                isVerified |-> artisan.verification.isVerified]]

\* Variant of the catch block that acknowledges instead of reporting.
CatchResponse_Success ==
  [status |-> 200, success |-> TRUE,
   message |-> "Form validated and stored successfully"]

\* The catch block's response.
CatchResponse == StorageFailed

\* ------------------------------------------------------ POST /bank-account

IdleRequest ==
  [pc |-> "idle", user |-> "none", body |-> Null, data |-> Null,
   found |-> Null, artisan |-> Null, isNew |-> FALSE,
   lookups |-> 0, saves |-> 0, threw |-> FALSE, responses |-> <<>>,
   written |-> Null]

\* authenticateToken has set req.user; the handler is entered.
Receive(r, u, b) ==
  /\ req[r].pc = "idle"
  /\ req' = [req EXCEPT ![r] = [@ EXCEPT !.pc = "received", !.user = u, !.body = b]]
  /\ UNCHANGED <<store, nextId, now, clientVars>>

\* Variant of the handler without the early return on a failed parse.
ProceedsToStore_Always(parsed) == TRUE

\* Whether the handler goes on to the record store after parsing.
ProceedsToStore(parsed) == parsed.success

\* Lines 38-61: safeParse, and the 400 on failure.
Validate(r) ==
  /\ req[r].pc = "received"
  /\ LET parsed == SafeParse(req[r].body) IN
     req' = [req EXCEPT ![r] =
       IF ProceedsToStore(parsed)
       THEN [@ EXCEPT !.pc = "validated", !.data = parsed.data]
       ELSE [@ EXCEPT !.pc = "done",
                      !.responses = Append(@, ValidationFailed(parsed.issues))]]
  /\ UNCHANGED <<store, nextId, now, clientVars>>

\* Lines 64-111: findOne resolves; the handler builds or updates the document
\* and calls save(). Each new Date() reads a later time than the one before.
FindOneResolves(r) ==
  /\ req[r].pc = "validated"
  /\ LET matches == FindMatches(store, req[r].user) IN
     IF matches = {}
     THEN /\ req' = [req EXCEPT ![r] =
                 [@ EXCEPT !.pc = "saving", !.isNew = TRUE,
                           !.lookups = @ + 1,
                           !.artisan = NewArtisan(nextId, req[r].user, req[r].data, now)]]
          /\ nextId' = nextId + 1
     ELSE /\ \E i \in matches :
               req' = [req EXCEPT ![r] =
                 [@ EXCEPT !.pc = "saving", !.isNew = FALSE,
                           !.lookups = @ + 1,
                           !.found = store[i],
                           !.artisan = UpdateArtisan(store[i], req[r].data, now)]]
          /\ UNCHANGED nextId
  /\ now' = now + 1
  /\ UNCHANGED <<store, clientVars>>

\* findOne rejects: the catch block answers.
FindOneThrows(r) ==
  /\ req[r].pc = "validated"
  /\ req' = [req EXCEPT ![r] =
       [@ EXCEPT !.pc = "done", !.lookups = @ + 1, !.threw = TRUE,
                 !.responses = Append(@, CatchResponse)]]
  /\ UNCHANGED <<store, nextId, now, clientVars>>

\* Lines 111-121: save resolves; the handler acknowledges.
SaveResolves(r) ==
  /\ req[r].pc = "saving"
  /\ store' = SaveDoc(store, req[r].artisan)
  /\ req' = [req EXCEPT ![r] =
       [@ EXCEPT !.pc = "done", !.saves = @ + 1,
                 !.written = store'[req[r].artisan.id],
                 !.responses = Append(@, Success(req[r].artisan))]]
  /\ UNCHANGED <<nextId, now, clientVars>>

\* save rejects: the catch block answers.
SaveThrows(r) ==
  /\ req[r].pc = "saving"
  /\ req' = [req EXCEPT ![r] =
       [@ EXCEPT !.pc = "done", !.saves = @ + 1, !.threw = TRUE,
                 !.responses = Append(@, CatchResponse)]]
  /\ UNCHANGED <<store, nextId, now, clientVars>>

\* ------------------------------------------------ api.ts: handleResponse

File(n) == [kind |-> "file", name |-> n]
Json(url, message) == [kind |-> "json", url |-> url, message |-> message]
Unparseable == [kind |-> "unparseable"]

SomethingWentWrong ==
  Str(<<"S", "o", "m", "e", "t", "h", "i", "n", "g", " ", "w", "e", "n", "t",
        " ", "w", "r", "o", "n", "g">>)
SyntaxError == Str(<<"S", "y", "n", "t", "a", "x", "E", "r", "r", "o", "r">>)
FailedToFetch == Str(<<"F", "a", "i", "l", "e", "d", " ", "t", "o", " ", "f", "e", "t", "c", "h">>)
TooLarge == Str(<<"T", "o", "o", " ", "l", "a", "r", "g", "e">>)

\* handleResponse(response): the value returned, or the error thrown.
HandleResponse(resp) ==
  IF ~resp.ok
  THEN [threw |-> TRUE, value |-> Null,
        reason |-> IF resp.body.kind = "json"
                   THEN OrElse(resp.body.message, SomethingWentWrong)
                   ELSE SomethingWentWrong]
  ELSE IF resp.body.kind = "json"
       THEN [threw |-> FALSE, value |-> resp.body, reason |-> Undefined]
       ELSE [threw |-> TRUE, value |-> Null, reason |-> SyntaxError]

\* The location POST /upload stores a file at.
Location(file) == Str(<<"/", "u", "/", file.name>>)

\* What POST /upload may answer for a file.
UploadResponses(file) ==
  {[ok |-> TRUE, body |-> Json(Location(file), Undefined)],
   [ok |-> FALSE, body |-> Json(Undefined, TooLarge)],
   [ok |-> FALSE, body |-> Unparseable]}

\* What POST /sellers/register may answer.
RegisterResponses ==
  {[ok |-> TRUE, body |-> Json(Undefined, Str(<<"o", "k">>))],
   [ok |-> TRUE, body |-> Unparseable],
   [ok |-> FALSE, body |-> Json(Undefined, Str(<<"d", "u", "p">>))],
   [ok |-> FALSE, body |-> Json(Undefined, Undefined)]}

\* ------------------------------------------------ api.ts: registerSeller

SingleFields == {"profilePhoto", "gstCertificate", "aadhaarProof", "craftVideo"}
RawFileFields == SingleFields \cup {"productPhotos"}
UrlFields ==
  {"profilePhotoUrl", "gstCertificateUrl", "aadhaarProofUrl",
   "productPhotoUrls", "craftVideoUrl"}

\* The `type` argument each field's uploadFile call passes.
UploadType(f) ==
  CASE f = "profilePhoto" -> "image"
    [] f = "gstCertificate" -> "document"
    [] f = "aadhaarProof" -> "document"
    [] f = "craftVideo" -> "video"

\* The field of fileUrls each single-file upload fills.
UrlField(f) ==
  CASE f = "profilePhoto" -> "profilePhotoUrl"
    [] f = "gstCertificate" -> "gstCertificateUrl"
    [] f = "aadhaarProof" -> "aadhaarProofUrl"
    [] f = "craftVideo" -> "craftVideoUrl"

\* The submissions: each single file present or null, 0..MaxPhotos photos.
PhotoFile(i) == File(DigitChars[i + 1])
Submissions ==
  {[businessName |-> Str(<<"Z">>),
    profilePhoto |-> p, gstCertificate |-> g, aadhaarProof |-> a,
    productPhotos |-> Arr([i \in 1..n |-> PhotoFile(i)]),
    craftVideo |-> v] :
     p \in {Null, File("p")}, g \in {Null, File("g")}, a \in {Null, File("a")},
     v \in {Null, File("v")}, n \in 0..MaxPhotos}

\* The promise of one uploadFile call. `order` is the position at which the
\* call completed among the product-photo uploads (0: not completed).
NoUpload ==
  [state |-> "none", file |-> Null, type |-> "", value |-> Null,
   reason |-> Undefined, order |-> 0]
\* uploadFile(file, type) up to its fetch: the request is on the wire.
Launch(file, type) ==
  [state |-> "pending", file |-> file, type |-> type, value |-> Null,
   reason |-> Undefined, order |-> 0]

\* Lines 94-130: the uploads registerSeller launches for data.
Launched(data) ==
  [single |-> [f \in SingleFields |->
                 IF ~Falsy(data[f]) THEN Launch(data[f], UploadType(f)) ELSE NoUpload],
   photos |-> IF Len(data.productPhotos.items) > 0
              THEN [i \in 1..Len(data.productPhotos.items) |->
                      Launch(data.productPhotos.items[i], "image")]
              ELSE <<>>]

\* The results array of a fulfilled Promise.all: input order.
AllValues(ps) == [i \in 1..Len(ps) |-> ps[i].value]

\* Variant of the join that waits for every input and ignores rejections
\* (Promise.allSettled, keeping the fulfilled values).
PromiseAll_IgnoreRejections(ps) ==
  IF \A i \in 1..Len(ps) : ps[i].state \in {"fulfilled", "rejected"}
  THEN [state |-> "fulfilled",
        value |-> AllValues(SelectSeq(ps, LAMBDA p : p.state = "fulfilled")),
        reason |-> Undefined]
  ELSE [state |-> "pending", value |-> Null, reason |-> Undefined]

\* Variant of the join that is fulfilled by its first fulfilled input.
PromiseAll_FirstFulfilled(ps) ==
  IF \E i \in 1..Len(ps) : ps[i].state = "rejected"
  THEN LET i == CHOOSE j \in 1..Len(ps) : ps[j].state = "rejected" IN
       [state |-> "rejected", value |-> Null, reason |-> ps[i].reason]
  ELSE IF Len(ps) = 0 \/ \E i \in 1..Len(ps) : ps[i].state = "fulfilled"
       THEN [state |-> "fulfilled",
             value |-> AllValues(SelectSeq(ps, LAMBDA p : p.state = "fulfilled")),
             reason |-> Undefined]
       ELSE [state |-> "pending", value |-> Null, reason |-> Undefined]

\* Promise.all(ps): rejected as soon as one input is rejected, fulfilled once
\* every input is. The continuation runs in the same turn as the settlement
\* that decides it, so at most one input is rejected when this is read.
PromiseAll(ps) ==
  IF \E i \in 1..Len(ps) : ps[i].state = "rejected"
  THEN LET i == CHOOSE j \in 1..Len(ps) : ps[j].state = "rejected" IN
       [state |-> "rejected", value |-> Null, reason |-> ps[i].reason]
  ELSE IF \A i \in 1..Len(ps) : ps[i].state = "fulfilled"
       THEN [state |-> "fulfilled", value |-> AllValues(ps), reason |-> Undefined]
       ELSE [state |-> "pending", value |-> Null, reason |-> Undefined]

\* p.then(res => ({ [field]: res.url }))
ThenUrl(p, field) ==
  IF p.state = "fulfilled"
  THEN [state |-> "fulfilled", value |-> (field :> p.value.url), reason |-> Undefined]
  ELSE [state |-> p.state, value |-> Null, reason |-> p.reason]

\* p.then(results => ({ productPhotoUrls: results.map(r => r.url) }))
ThenUrls(p) ==
  IF p.state = "fulfilled"
  THEN [state |-> "fulfilled",
        value |-> ("productPhotoUrls" :>
                     Arr([i \in 1..Len(p.value) |-> p.value[i].url])),
        reason |-> Undefined]
  ELSE [state |-> p.state, value |-> Null, reason |-> p.reason]

SinglePromise(up, f) ==
  IF up.single[f].state = "none" THEN <<>>
  ELSE <<ThenUrl(up.single[f], UrlField(f))>>

\* Variant of the photo group that collects results as the uploads complete.
ProductPhotosPromise_CompletionOrder(photos) ==
  LET joined == PromiseAll(photos) IN
  IF joined.state = "fulfilled"
  THEN [joined EXCEPT !.value =
          [k \in 1..Len(photos) |->
             photos[CHOOSE i \in 1..Len(photos) : photos[i].order = k].value]]
  ELSE joined

\* Promise.all(data.productPhotos.map(photo => uploadFile(photo, 'image')))
ProductPhotosPromise(photos) == PromiseAll(photos)

\* uploadPromises, in the order the code pushes them.
UploadPromises(up) ==
  SinglePromise(up, "profilePhoto")
  \o SinglePromise(up, "gstCertificate")
  \o SinglePromise(up, "aadhaarProof")
  \o (IF Len(up.photos) > 0 THEN <<ThenUrls(ProductPhotosPromise(up.photos))>> ELSE <<>>)
  \o SinglePromise(up, "craftVideo")

\* Object.assign({}, ...objs)
RECURSIVE ObjectAssign(_)
ObjectAssign(objs) ==
  IF Len(objs) = 0 THEN <<>>
  ELSE Spread(ObjectAssign(SubSeq(objs, 1, Len(objs) - 1)), objs[Len(objs)])

\* Variant of finalData that does not clear the raw file fields.
FinalData_KeepRaw(data, fileUrls) == Spread(data, fileUrls)

\* Lines 137-145: finalData.
FinalData(data, fileUrls) ==
  Spread(Spread(data, fileUrls),
         [profilePhoto |-> Undefined, gstCertificate |-> Undefined,
          aadhaarProof |-> Undefined, productPhotos |-> Undefined,
          craftVideo |-> Undefined])

\* JSON.stringify(obj): properties whose value is undefined are left out.
Stringify(obj) ==
  [k \in {j \in DOMAIN obj : obj[j].kind # "undefined"} |-> obj[k]]

\* Whether an upload is still on the wire.
InFlight(up) ==
  \/ \E f \in SingleFields : up.single[f].state = "pending"
  \/ \E i \in 1..Len(up.photos) : up.photos[i].state = "pending"

IdleOutcome ==
  [pc |-> "idle", stage |-> "", error |-> Undefined, result |-> Null,
   inFlightAtExit |-> FALSE]

\* Lines 133-154 once `await Promise.all(uploadPromises)` settles: the throw,
\* or finalData and the POST. Pending: registerSeller stays suspended.
AfterJoin(up, data) ==
  LET joined == PromiseAll(UploadPromises(up)) IN
  CASE joined.state = "rejected" ->
         /\ outcome' = [pc |-> "failed", stage |-> "uploads",
                        error |-> joined.reason, result |-> Null,
                        inFlightAtExit |-> InFlight(up)]
         /\ posted' = posted
    [] joined.state = "fulfilled" ->
         /\ outcome' = [pc |-> "posting", stage |-> "register",
                        error |-> Undefined, result |-> Null,
                        inFlightAtExit |-> InFlight(up)]
         /\ posted' = Append(posted,
                             Stringify(FinalData(data, ObjectAssign(joined.value))))
    [] joined.state = "pending" ->
         /\ outcome' = [outcome EXCEPT !.pc = "awaiting"]
         /\ posted' = posted

\* registerSeller(data) up to its first suspension.
Start(data) ==
  /\ outcome.pc = "idle"
  /\ sub' = data
  /\ uploads' = Launched(data)
  /\ AfterJoin(uploads', data)
  /\ UNCHANGED serverVars

\* An uploadFile promise settles with what handleResponse made of resp.
Settled(u, resp, k) ==
  LET h == HandleResponse(resp) IN
  IF h.threw
  THEN [u EXCEPT !.state = "rejected", !.reason = h.reason]
  ELSE [u EXCEPT !.state = "fulfilled", !.value = h.value, !.order = k]
\* fetch itself rejects.
NetworkFailed(u) == [u EXCEPT !.state = "rejected", !.reason = FailedToFetch]

PhotosCompleted(up) ==
  Cardinality({i \in 1..Len(up.photos) : up.photos[i].state = "fulfilled"})

\* registerSeller resumes only while it is suspended on the join.
Resume(up) ==
  IF outcome.pc = "awaiting" THEN AfterJoin(up, sub)
  ELSE UNCHANGED <<outcome, posted>>

SingleUploadResponds(f) ==
  /\ uploads.single[f].state = "pending"
  /\ \E resp \in UploadResponses(uploads.single[f].file) :
       uploads' = [uploads EXCEPT !.single[f] = Settled(@, resp, 0)]
  /\ Resume(uploads')
  /\ UNCHANGED <<sub, serverVars>>

SingleUploadNetworkFails(f) ==
  /\ uploads.single[f].state = "pending"
  /\ uploads' = [uploads EXCEPT !.single[f] = NetworkFailed(@)]
  /\ Resume(uploads')
  /\ UNCHANGED <<sub, serverVars>>

PhotoUploadResponds(i) ==
  /\ uploads.photos[i].state = "pending"
  /\ \E resp \in UploadResponses(uploads.photos[i].file) :
       uploads' = [uploads EXCEPT
                     !.photos[i] = Settled(@, resp, PhotosCompleted(uploads) + 1)]
  /\ Resume(uploads')
  /\ UNCHANGED <<sub, serverVars>>

PhotoUploadNetworkFails(i) ==
  /\ uploads.photos[i].state = "pending"
  /\ uploads' = [uploads EXCEPT !.photos[i] = NetworkFailed(@)]
  /\ Resume(uploads')
  /\ UNCHANGED <<sub, serverVars>>

\* Lines 148-156: the registration request is answered.
RegisterResponds(resp) ==
  /\ outcome.pc = "posting"
  /\ LET h == HandleResponse(resp) IN
     outcome' = IF h.threw
                THEN [outcome EXCEPT !.pc = "failed", !.error = h.reason]
                ELSE [outcome EXCEPT !.pc = "done", !.result = h.value]
  /\ UNCHANGED <<sub, uploads, posted, serverVars>>

RegisterNetworkFails ==
  /\ outcome.pc = "posting"
  /\ outcome' = [outcome EXCEPT !.pc = "failed", !.error = FailedToFetch]
  /\ UNCHANGED <<sub, uploads, posted, serverVars>>

\* -------------------------------------------------------- specifications

ServerIdle ==
  /\ nextId = 2
  /\ now = 1
  /\ req = [r \in Requests |-> IdleRequest]

ClientIdle ==
  /\ sub = Null
  /\ uploads = [single |-> [f \in SingleFields |-> NoUpload], photos |-> <<>>]
  /\ outcome = IdleOutcome
  /\ posted = <<>>

\* The server starts on a collection that holds what was persisted before.
Init == store \in SeedStores /\ ServerIdle /\ ClientIdle

\* The client runs in the browser; the server's state plays no part.
ClientInit == store = <<>> /\ ServerIdle /\ ClientIdle

ServerNext ==
  \/ \E r \in Requests, u \in Users, b \in ServerBodies : Receive(r, u, b)
  \/ \E r \in Requests : Validate(r)
  \/ \E r \in Requests : FindOneResolves(r)
  \/ \E r \in Requests : FindOneThrows(r)
  \/ \E r \in Requests : SaveResolves(r)
  \/ \E r \in Requests : SaveThrows(r)

ServerSpec == Init /\ [][ServerNext]_vars

ValidateNext ==
  \/ \E u \in Users, b \in ValidateBodies : Receive(1, u, b)
  \/ Validate(1)
  \/ FindOneResolves(1)
  \/ FindOneThrows(1)
  \/ SaveResolves(1)
  \/ SaveThrows(1)

ValidateSpec == Init /\ [][ValidateNext]_vars

ClientNext ==
  \/ \E data \in Submissions : Start(data)
  \/ \E f \in SingleFields : SingleUploadResponds(f)
  \/ \E f \in SingleFields : SingleUploadNetworkFails(f)
  \/ \E i \in 1..MaxPhotos : i <= Len(uploads.photos) /\ PhotoUploadResponds(i)
  \/ \E i \in 1..MaxPhotos : i <= Len(uploads.photos) /\ PhotoUploadNetworkFails(i)
  \/ \E resp \in RegisterResponses : RegisterResponds(resp)
  \/ RegisterNetworkFails

ClientSpec == ClientInit /\ [][ClientNext]_vars

\* ------------------------------------------------------------- claims

LastResponse(r) == req[r].responses[Len(req[r].responses)]
Answered(r, status) ==
  /\ req[r].pc = "done"
  /\ Len(req[r].responses) >= 1
  /\ LastResponse(r).status = status
Created(r) == Answered(r, 200) /\ req[r].isNew
Updated(r) == Answered(r, 200) /\ ~req[r].isNew

C2_CreatedRecord ==
  \A r \in Requests :
    Created(r) =>
      LET d == req[r].data
          w == req[r].written
          resp == LastResponse(r)
      IN /\ Len(req[r].responses) = 1
         /\ w.kind = "doc"
         /\ w.id \in DOMAIN store
         /\ w.userId = req[r].user
         /\ w.name = d.name
         /\ w.location = d.location
         /\ w.verification.isVerified = TRUE
         /\ w.bio = (IF d.bio.kind = "undefined" THEN Str(<<>>) ELSE d.bio)
         /\ w.specialties =
              (IF d.specialties.kind = "undefined" THEN Arr(<<>>) ELSE d.specialties)
         /\ w.experience =
              (IF d.experience.kind = "undefined" THEN Num(0) ELSE d.experience)
         /\ w.socials =
              (IF d.socials.kind = "undefined"
               THEN Socials(Undefined, Undefined, Undefined) ELSE d.socials)
         /\ resp.success = TRUE
         /\ resp.artisan = [id |-> w.id, name |-> d.name, isVerified |-> TRUE]

\* C2 (step part): the save of such a request adds exactly one document to
\* the store, the caller's, and changes no other document.
C2_CreatesExactlyOne ==
  \A r \in Requests :
    (req[r].pc = "saving" /\ req[r].isNew /\ req'[r].pc = "done" /\ ~req'[r].threw) =>
      /\ DOMAIN store' = DOMAIN store \cup {req'[r].written.id}
      /\ req'[r].written.id \notin DOMAIN store
      /\ FindMatches(store', req[r].user) =
           FindMatches(store, req[r].user) \cup {req'[r].written.id}
      /\ store'[req'[r].written.id] = req'[r].written
      /\ \A i \in DOMAIN store : store'[i] = store[i]

\* C2: a valid request from a caller without a record creates exactly one
\* record for that caller, verified and with the defaults, and answers 200
\* with success, the record's id, its name and isVerified = true.
C2_CreateBranch == []C2_CreatedRecord /\ [][C2_CreatesExactlyOne]_vars

C2_Witness ==
  \E r \in Requests :
    /\ Created(r)
    /\ req[r].data.bio.kind = "undefined"
    /\ req[r].data.experience.kind = "undefined"
    /\ req[r].written.bio = Str(<<>>)

\* The update branch's effect on the fields outside the verification block:
\* name always, the others only when the request carries them.
PartialUpdate(r) ==
  LET d == req[r].data
      f == req[r].found
      w == req[r].written
  IN /\ w.kind = "doc"
     /\ f.kind = "doc"
     /\ w.id = f.id
     /\ w.userId = f.userId
     /\ w.name = d.name
     /\ w.bio = (IF d.bio.kind = "undefined" THEN f.bio ELSE d.bio)
     /\ w.location = (IF d.location.kind = "undefined" THEN f.location ELSE d.location)
     /\ w.specialties =
          (IF d.specialties.kind = "undefined" THEN f.specialties ELSE d.specialties)
     /\ w.experience =
          (IF d.experience.kind = "undefined" THEN f.experience ELSE d.experience)
     /\ w.socials = (IF d.socials.kind = "undefined" THEN f.socials ELSE d.socials)

AssignedVerificationFields ==
  {"isVerified", "documentType", "documentNumber", "bankDetails", "verifiedAt"}

\* The five fields the handler assigns hold the request's values and the
\* time at which the handler built the document.
VerificationAssigned(r) ==
  LET d == req[r].data
      v == req[r].written.verification
  IN /\ AssignedVerificationFields \subseteq DOMAIN v
     /\ v.isVerified = TRUE
     /\ v.documentType = d.documentType
     /\ v.documentNumber = d.documentNumber
     /\ v.bankDetails = [accountNumber |-> d.accountNumber,
                         ifscCode |-> d.ifscCode, bankName |-> d.bankName]
     /\ v.verifiedAt = req[r].artisan.verification.verifiedAt
     /\ v.verifiedAt > req[r].found.verification.verifiedAt
     /\ v.verifiedAt < now

C4_RejectedWithoutStore ==
  \A r \in Requests :
    (req[r].pc # "idle" /\ Issues(req[r].body) # {}) =>
      /\ req[r].lookups = 0
      /\ req[r].saves = 0
      /\ req[r].written.kind = "null"
      /\ req[r].pc \in {"received", "done"}
      /\ req[r].pc = "done" =>
           /\ Len(req[r].responses) = 1
           /\ req[r].responses[1].status = 400
           /\ req[r].responses[1].error = "Validation failed"
           /\ req[r].responses[1].details # {}

\* C4 (step part): the step that rejects it leaves the store as it was.
C4_StoreUntouched ==
  \A r \in Requests :
    (req[r].pc = "received" /\ req'[r].pc # "received" /\ Issues(req[r].body) # {}) =>
      /\ store' = store
      /\ nextId' = nextId

\* C4: a request that fails validation gets 400 with field-level failures and
\* never touches the record store, whether or not the caller has a record.
C4_ValidationFailure == []C4_RejectedWithoutStore /\ [][C4_StoreUntouched]_vars

C4_Witness ==
  \E r \in Requests :
    /\ Answered(r, 400)
    /\ FindMatches(store, req[r].user) # {}
    /\ "accountNumber" \in LastResponse(r).details

\* C6: an accountNumber of fewer than 9 or more than 18 characters, or with a
\* character that is not a decimal digit, is answered 400 with a failure on
\* accountNumber; an accountNumber of 9 to 18 decimal digits gets no failure
\* on accountNumber.
C6_AccountNumberRule ==
  \A r \in Requests :
    (req[r].pc \notin {"idle", "received"} /\ req[r].body.accountNumber.kind = "string") =>
      LET cs == req[r].body.accountNumber.chars
          wellFormed ==
            /\ Len(cs) >= 9
            /\ Len(cs) <= 18
            /\ \A i \in 1..Len(cs) :
                 cs[i] \in {"0", "1", "2", "3", "4", "5", "6", "7", "8", "9"}
      IN IF wellFormed
         THEN Answered(r, 400) => "accountNumber" \notin LastResponse(r).details
         ELSE Answered(r, 400) /\ "accountNumber" \in LastResponse(r).details

C6_Witness ==
  /\ Answered(1, 400)
  /\ req[1].body.accountNumber.kind = "string"
  /\ Len(req[1].body.accountNumber.chars) = 19
  /\ \A i \in 1..19 : req[1].body.accountNumber.chars[i] \in Digits
  /\ LastResponse(1).details = {"accountNumber"}

\* C8: a lookup or save that throws is answered 500 with the fixed error and
\* is not retried; every finished request has exactly one response, 200, 400
\* or 500; and 200 is only sent for a request whose save completed.
C8_PersistenceFailure ==
  \A r \in Requests :
    /\ req[r].lookups <= 1
    /\ req[r].saves <= 1
    /\ Len(req[r].responses) = (IF req[r].pc = "done" THEN 1 ELSE 0)
    /\ req[r].pc = "done" => LastResponse(r).status \in {200, 400, 500}
    /\ req[r].threw =>
         /\ req[r].pc = "done"
         /\ req[r].responses =
              <<[status |-> 500, error |-> "Failed to validate and store form"]>>
         /\ req[r].written.kind = "null"
    /\ Answered(r, 200) =>
         /\ ~req[r].threw
         /\ req[r].saves = 1
         /\ req[r].written.kind = "doc"
         /\ req[r].written.id \in DOMAIN store
    /\ Answered(r, 500) => req[r].threw

C8_Witness ==
  \E r \in Requests :
    /\ req[r].threw
    /\ req[r].saves = 1
    /\ Answered(r, 500)

AllUploads ==
  {uploads.single[f] : f \in SingleFields}
  \cup {uploads.photos[i] : i \in 1..Len(uploads.photos)}
LaunchedUploads == {u \in AllUploads : u.state # "none"}

\* C5: if an upload launched by registerSeller has failed, the call has
\* failed with an error and no request to /sellers/register was issued.
C5_UploadFailureFailsRegistration ==
  (\E u \in AllUploads : u.state = "rejected") =>
    /\ outcome.pc = "failed"
    /\ outcome.stage = "uploads"
    /\ outcome.error.kind = "string"
    /\ outcome.result.kind = "null"
    /\ posted = <<>>

C5_Witness ==
  /\ outcome.pc = "failed"
  /\ uploads.single["profilePhoto"].state = "fulfilled"
  /\ Len(uploads.photos) = 2
  /\ uploads.photos[1].state = "fulfilled"
  /\ uploads.photos[2].state = "rejected"
  /\ uploads.single["craftVideo"].state = "pending"

\* Whether the submission carries the attachment a url field derives from.
SourcePresent(field) ==
  CASE field = "profilePhotoUrl" -> sub.profilePhoto.kind = "file"
    [] field = "gstCertificateUrl" -> sub.gstCertificate.kind = "file"
    [] field = "aadhaarProofUrl" -> sub.aadhaarProof.kind = "file"
    [] field = "craftVideoUrl" -> sub.craftVideo.kind = "file"
    [] field = "productPhotoUrls" -> Len(sub.productPhotos.items) > 0

\* C7: registerSeller issues an upload exactly for the attachments present
\* (one per non-null file field, one per product photo), and the body sent
\* to /sellers/register has a url field exactly when its source was present
\* and has no raw file field.
C7_UploadsAndPayloadFollowPresence ==
  outcome.pc # "idle" =>
    /\ \A f \in SingleFields :
         /\ uploads.single[f].state # "none" <=> sub[f].kind = "file"
         /\ uploads.single[f].state # "none" => uploads.single[f].file = sub[f]
    /\ Len(uploads.photos) = Len(sub.productPhotos.items)
    /\ \A i \in 1..Len(uploads.photos) :
         /\ uploads.photos[i].state # "none"
         /\ uploads.photos[i].file = sub.productPhotos.items[i]
    /\ Len(posted) <= 1
    /\ outcome.stage = "register" <=> Len(posted) = 1
    /\ \A n \in 1..Len(posted) :
         /\ \A field \in UrlFields : field \in DOMAIN posted[n] <=> SourcePresent(field)
         /\ DOMAIN posted[n] \cap RawFileFields = {}
         /\ "businessName" \in DOMAIN posted[n]
         /\ posted[n].businessName = sub.businessName

C7_Witness ==
  /\ Len(posted) = 1
  /\ sub.profilePhoto.kind = "file"
  /\ sub.craftVideo.kind = "null"
  /\ Len(sub.productPhotos.items) = 2
  /\ DOMAIN posted[1] = {"businessName", "profilePhotoUrl", "productPhotoUrls"}

\* C9: when all product-photo uploads succeed, productPhotoUrls[i] is the
\* location the upload of productPhotos[i] returned, for every i, whatever
\* the order in which the uploads completed.
C9_PhotoUrlsKeepInputOrder ==
  \A n \in 1..Len(posted) :
    "productPhotoUrls" \in DOMAIN posted[n] =>
      /\ Len(posted[n].productPhotoUrls.items) = Len(sub.productPhotos.items)
      /\ \A i \in 1..Len(sub.productPhotos.items) :
           /\ uploads.photos[i].file = sub.productPhotos.items[i]
           /\ uploads.photos[i].state = "fulfilled"
           /\ posted[n].productPhotoUrls.items[i] = uploads.photos[i].value.url

C9_Witness ==
  /\ Len(posted) = 1
  /\ Len(uploads.photos) = 2
  /\ uploads.photos[2].order < uploads.photos[1].order
  /\ uploads.single["gstCertificate"].state = "fulfilled"
  /\ posted[1].productPhotoUrls.items[1] # posted[1].productPhotoUrls.items[2]

====
